---- MODULE Spec2Model ----
(***************************************************************************)
(* A model of the Model Optimization Pipeline of the Reduced-DNN web app:  *)
(* ModelOptimizer.optimize_model and the methods it calls                  *)
(* (app/model_optimizer.py).  One request is followed from its submission  *)
(* to the record optimize_model returns, or to the exception that leaves   *)
(* it.  Python values are modelled by records; an exception is a record    *)
(* of its class and its message, and the message keeps the text pieces the *)
(* f-strings of the source put into it.                                    *)
(***************************************************************************)
EXTENDS Integers, Sequences, FiniteSets, TLC

VARIABLES
    pc,             \* position of the request inside optimize_model
    req,            \* arguments of optimize_model (technique and **kwargs)
    wfile,          \* how the weights file at input_path was produced
    module_ns,      \* namespace of the executed architecture module
    model_class,    \* class resolved by load_model
    model,          \* the model instance load_model builds and returns
    load_log,       \* calls of model.load_state_dict: <<state_dict, strict>>
    original_size,  \* get_model_size(input_path), in hundredths of a MB
    strategy_log,   \* strategy calls made by optimize_model, with arguments
    imp,            \* importance object selected by prune_model
    prune_path,     \* which pruning path completed: structured or fallback
    structured_err, \* the exception structured pruning raised, if any
    student,        \* student instance built by crd_distillation
    script_ns,      \* namespace of the executed training script
    training_function, \* entry point resolved in the training script
    calls,          \* invocations of the training entry point
    optimized_model,\* what the selected strategy returned
    summary_text,   \* text generate_model_summary returned
    files,          \* files written by this run: path -> content
    optimized_size, \* get_model_size(output_path), in hundredths of a MB
    result,         \* the record optimize_model returned
    escaped,        \* the exception that left optimize_model
    sys_modules,    \* sys.modules of the process: name -> the run it is of
    script_import,  \* what `import model_architecture` gave the script
    ctor_raised,    \* the exception the constructor of the model class raised
    now,            \* time.time() of the server, in ticks
    media,          \* files under MEDIA_ROOT: path -> time and writer
    views,          \* process_model: the locals of each request being served
    home            \* Home: the cleanup a visit of the home page runs

vars == <<pc, req, wfile, module_ns, model_class, model, load_log,
          original_size, strategy_log, imp, prune_path, structured_err,
          student, script_ns, training_function, calls, optimized_model,
          summary_text, files, optimized_size, result, escaped,
          sys_modules, script_import, ctor_raised, now, media, views, home>>

\* The state of the web views (app/views.py, app/cleanup.py).
web == <<now, media, views, home>>

(***************************************************************************)
(* Bounds of the model.                                                    *)
(***************************************************************************)
\* Bytes a serialized weights file holds besides its tensors.
FileOverhead == 1024
\* Bytes of a generated summary text.
SummaryBytes == 2048

(***************************************************************************)
(* Exceptions and messages.                                                *)
(***************************************************************************)
None == "None"

\* A message: the literal text of the innermost f-string, the name it
\* quotes, the list of names it prints, the parameters it prints and the
\* prefixes that handlers put in front of it while it propagates.
Msg(text, subject, names, params) ==
    [text |-> text, subject |-> subject, names |-> names,
     params |-> params, hint |-> "", wraps |-> <<>>]

NoMsg == Msg("", "", {}, "")

Exc(cls, msg) == [cls |-> cls, msg |-> msg]

NoExc == Exc(None, NoMsg)

\* raise Exception(f"<prefix>: {str(e)}")
Wrapped(prefix, e) ==
    Exc("Exception", [e.msg EXCEPT !.wraps = <<prefix>> \o @])

\* Classes that derive from Exception, which is what `except Exception`
\* catches; SystemExit and KeyboardInterrupt derive from BaseException only.
IsException(cls) == cls \notin {None, "SystemExit", "KeyboardInterrupt"}

\* An exception raised by code the user supplied (architecture module,
\* model class, training script): any class, text chosen by that code.
UserExc(cls) == Exc(cls, Msg("raised by user code", "", {}, ""))

\* An exception raised by a library call.
LibExc(cls, text) == Exc(cls, Msg(text, "", {}, ""))

UserRaises == {"ValueError", "SystemExit"}

(***************************************************************************)
(* Files, blobs and model instances.                                       *)
(***************************************************************************)
NoItems == [n \in {} |-> 0]

Tensor(ch, unit) == [kind |-> "tensor", ch |-> ch, unit |-> unit, items |-> NoItems]

Dict(items) == [kind |-> "dict", ch |-> 0, unit |-> 0, items |-> items]

\* A pickled object that is no dict (a complete model object).
PickledObject == [kind |-> "object", ch |-> 0, unit |-> 0, items |-> NoItems]

Layer(name, kind, ch, unit) ==
    [name |-> name, kind |-> kind, ch |-> ch, unit |-> unit,
     src |-> "init", zero_pct |-> 0, mask |-> FALSE, dtype |-> "float32"]

MB == 1048576

\* What the constructor of a class of the architecture module builds.
Architecture(cls, params) ==
    CASE cls = "Net" /\ params = "wide" ->
            << Layer("conv1", "conv", 6, MB), Layer("bn1", "other", 6, 8),
               Layer("fc", "linear", 4, MB) >>
      [] cls = "Net" ->
            << Layer("conv1", "conv", 4, 256), Layer("bn1", "other", 4, 8),
               Layer("fc", "linear", 2, 256) >>
      [] cls = "Student" /\ params = "wide" ->
            << Layer("conv1", "conv", 3, MB), Layer("fc", "linear", 3, MB) >>
      [] cls = "Student" ->
            << Layer("conv1", "conv", 2, 256), Layer("fc", "linear", 2, 256) >>
      [] OTHER -> << Layer("act", "other", 1, 8) >>

Instance(cls, params, oid) ==
    [oid |-> oid, cls |-> cls, layers |-> Architecture(cls, params),
     mode |-> "train", is_module |-> TRUE]

NoModel ==
    [oid |-> None, cls |-> None, layers |-> <<>>, mode |-> None,
     is_module |-> FALSE]

\* model.state_dict(): the flat mapping from parameter name to tensor.
StateDictOf(m) ==
    LET idx == 1..Len(m.layers)
        names == {m.layers[i].name : i \in idx}
    IN Dict([n \in names |->
               LET i == CHOOSE j \in idx : m.layers[j].name = n
               IN Tensor(m.layers[i].ch, m.layers[i].unit)])

RECURSIVE SumBytes(_)
SumBytes(layers) ==
    IF layers = <<>> THEN 0
    ELSE LET l == Head(layers)
             b == IF l.dtype = "qint8" THEN (l.ch * l.unit) \div 4
                  ELSE l.ch * l.unit
         IN b + SumBytes(Tail(layers))

\* Size in bytes of the file torch.save(model.state_dict(), path) writes.
SerializedBytes(m) == FileOverhead + SumBytes(m.layers)

(***************************************************************************)
(* The weights file at input_path.                                         *)
(***************************************************************************)
RestrictTo(d, keys) == Dict([n \in keys |-> d.items[n]])

\* The flat name-to-tensor mappings a weights file may hold.
FlatMappings ==
    LET small == StateDictOf(Instance("Net", "default", None))
        wide  == StateDictOf(Instance("Net", "wide", None))
    IN { small, wide,
         \* an entry of the model is missing
         RestrictTo(small, {"conv1", "bn1"}),
         \* an entry has another shape than the model's parameter
         Dict([small.items EXCEPT !["fc"] = Tensor(3, 256)]),
         \* a parameter that is itself named model_state_dict
         Dict([n \in {"conv1", "model_state_dict"} |-> Tensor(4, 256)]) }

FileWraps == {"none", "state_dict", "model_state_dict", "both"}

\* A weights file is described by the flat mapping it was saved from and
\* the way that mapping was wrapped; FileBlob is the object torch.load
\* returns for it.
WeightFiles ==
    [flat : FlatMappings, wrap : FileWraps, other : {Dict(NoItems)}]
    \cup [flat : {Dict(NoItems)}, wrap : {"object_train", "object_eval", "corrupt"},
          other : {Dict(NoItems)}]
    \cup [flat : {StateDictOf(Instance("Net", "default", None))}, wrap : {"both"},
          other : {StateDictOf(Instance("Student", "default", None))}]

NoFile == [flat |-> Dict(NoItems), wrap |-> None, other |-> Dict(NoItems)]

Epoch == Tensor(1, 8)

FileBlob(f) ==
    CASE f.wrap = "none" -> f.flat
      [] f.wrap = "state_dict" ->
            Dict([n \in {"state_dict", "epoch"} |->
                    IF n = "state_dict" THEN f.flat ELSE Epoch])
      [] f.wrap = "model_state_dict" ->
            Dict([n \in {"model_state_dict", "epoch"} |->
                    IF n = "model_state_dict" THEN f.flat ELSE Epoch])
      [] f.wrap = "both" ->
            Dict([n \in {"state_dict", "model_state_dict"} |->
                    IF n = "state_dict" THEN f.flat ELSE f.other])
      [] OTHER -> PickledObject

RECURSIVE BlobBytes(_)
BlobBytes(b) ==
    CASE b.kind = "tensor" -> b.ch * b.unit
      [] b.kind = "dict" ->
            LET RECURSIVE Sum(_)
                Sum(keys) ==
                    IF keys = {} THEN 0
                    ELSE LET k == CHOOSE x \in keys : TRUE
                         IN BlobBytes(b.items[k]) + Sum(keys \ {k})
            IN Sum(DOMAIN b.items)
      [] OTHER -> SumBytes(Architecture("Net", "default"))

\* os.path.getsize(input_path)
FileBytes(f) == FileOverhead + BlobBytes(FileBlob(f))

(***************************************************************************)
(* Sizes and metrics.                                                      *)
(***************************************************************************)
\* round(num / den) for den > 0, ties to the even neighbour as Python's
\* round does.
RoundHalfEven(num, den) ==
    LET q == num \div den
        r == num - q * den
    IN IF 2 * r < den THEN q
       ELSE IF 2 * r > den THEN q + 1
       ELSE IF q % 2 = 0 THEN q ELSE q + 1

\* get_model_size: round(size_bytes / (1024 * 1024), 2), in hundredths.
GetModelSize(bytes) == RoundHalfEven(bytes * 100, MB)

\* round(((original - optimized) / original) * 100, 2), in hundredths of a
\* percent; defined for original # 0 only.
SizeReduction(original, optimized) ==
    RoundHalfEven((original - optimized) * 10000, original)

(***************************************************************************)
(* Paths: a path is the sequence of its characters.                        *)
(***************************************************************************)
PthExt == <<".", "p", "t", "h">>
PtExt == <<".", "p", "t">>
SummarySuffix == <<"_", "s", "u", "m", "m", "a", "r", "y", ".", "t", "x", "t">>

\* str.replace(old, new): every occurrence, left to right.
RECURSIVE Replace(_, _, _)
Replace(s, old, new) ==
    IF Len(s) < Len(old) THEN s
    ELSE IF SubSeq(s, 1, Len(old)) = old
         THEN new \o Replace(SubSeq(s, Len(old) + 1, Len(s)), old, new)
         ELSE <<Head(s)>> \o Replace(Tail(s), old, new)

\* output_path.replace('.pth', '_summary.txt').replace('.pt', '_summary.txt')
SummaryPath(path) ==
    Replace(Replace(path, PthExt, SummarySuffix), PtExt, SummarySuffix)

OutputPaths ==
    { <<"m", ".", "p", "t", "h">>, <<"m", ".", "p", "t">>,
      <<"m", ".", "P", "T", "H">> }

NoFiles == [p \in {} |-> 0]

(***************************************************************************)
(* Namespaces of user-supplied modules.                                    *)
(***************************************************************************)
\* name.startswith('_')
IsPrivate(name) == name \in {"__name__", "_registry", "_fit"}

\* [name for name in dir(module) if not name.startswith('_')]
PublicNames(ns) == {n \in DOMAIN ns : ~IsPrivate(n)}

\* A check that accepts any class.
IsAnyClass(kind) == kind \in {"module_class", "class"}

\* isinstance(c, type) and issubclass(c, nn.Module)
IsModuleClass(kind) == kind = "module_class"

\* callable(obj)
IsCallable(kind) == kind \in {"function", "class", "module_class"}

\* The architecture file defines two model classes, a class that is no
\* model, a function and a private value, and imports torch.nn as nn; every
\* executed module has the attribute __name__.
ArchNamespace ==
    [n \in {"__name__", "Net", "Student", "Config", "helper", "nn", "_registry"} |->
        CASE n \in {"Net", "Student"} -> "module_class"
          [] n = "Config" -> "class"
          [] n = "helper" -> "function"
          [] OTHER -> "value"]

NoNamespace == [n \in {} |-> None]

\* sys.modules, as far as the core touches it: the two names the core
\* registers its modules under, each bound to the module object of the run
\* that registered it last ("this" run or an "other" run of the process).
ModuleNames == {"model_architecture", "training_module"}

NoModules == [n \in ModuleNames |-> None]

\* sys.modules[name] = module
Register(modules, name, run) == [modules EXCEPT ![name] = run]

\* `import name` in user code: the module sys.modules holds under the name.
Import(modules, name) == modules[name]

(***************************************************************************)
(* Requests.                                                               *)
(***************************************************************************)
KnownTechniques == {"pruning", "quantization", "crd"}

\* kwargs.get(key, default)
KwGet(kwargs, key, default) ==
    IF key \in DOMAIN kwargs THEN kwargs[key] ELSE default

LoadKwargs ==
    { NoNamespace, [architecture_path |-> "arch.py"] }
    \cup [architecture_path : {"arch.py"}, class_name : {"Net"},
          init_params : {"default", "wide"}]
    \cup [architecture_path : {"arch.py"},
          class_name : {"Absent", "Config", "helper"}]

PruningAmounts == {0, 50, 150}

PruningKwargs ==
    { NoNamespace }
    \cup [pruning_amount : PruningAmounts]
    \cup [pruning_amount : PruningAmounts, importance_metric : {"l2", "entropy"},
          global_pruning : {FALSE}]

QuantizationKwargs == { NoNamespace } \cup [quantization_type : {"dynamic", "static"}]

CrdKwargs ==
    [student_class_name : {"Student"}, student_init_params : {"default", "wide"},
     training_script_path : {"train.py"}]
    \cup [student_class_name : {"Absent", "Config"},
          student_init_params : {"default"}, training_script_path : {"train.py"}]

TechniqueKwargs(t) ==
    CASE t = "pruning" -> PruningKwargs
      [] t = "quantization" -> QuantizationKwargs
      [] t = "crd" -> CrdKwargs
      [] OTHER -> { NoNamespace }

Techniques == KnownTechniques \cup {"sparsify"}

NoRequest ==
    [technique |-> None, output_path |-> <<>>, kwargs |-> NoNamespace]

NoResult == [pending |-> TRUE]

NoImportance == [cls |-> None, p |-> 0]

(***************************************************************************)
(* optimize_model: the failure boundary.                                   *)
(***************************************************************************)
\* A failure record that keeps a field of the success shape.
FailureRecordWithMetrics(msg) ==
    [success |-> FALSE, error |-> msg, processing_time |-> 0]

\* return {'success': False, 'error': str(e)}
FailureRecord(msg) == [success |-> FALSE, error |-> msg]

\* The record of a successful run.
SuccessRecord(technique, original, optimized, reduction, time) ==
    [success |-> TRUE, technique |-> technique, original_size_mb |-> original,
     optimized_size_mb |-> optimized, size_reduction_percent |-> reduction,
     processing_time |-> time]

\* `except Exception as e` of optimize_model: an exception of a class
\* derived from Exception becomes the failure record, any other leaves
\* optimize_model.
Deliver(e) ==
    IF IsException(e.cls)
    THEN /\ pc' = "returned"
         /\ result' = FailureRecord(e.msg)
         /\ UNCHANGED escaped
    ELSE /\ pc' = "escaped"
         /\ escaped' = e
         /\ UNCHANGED result

\* A handler that passes the exception on as it is.
LoadModelExceptBare(e) == e

\* `except Exception as e` of load_model.
LoadModelExcept(e) ==
    IF IsException(e.cls) THEN Wrapped("Failed to load model", e) ELSE e

RaiseInLoad(e) == Deliver(LoadModelExcept(e))

(***************************************************************************)
(* The web views: the requests served at a time, the files under           *)
(* MEDIA_ROOT and the cleanup of the home page.                            *)
(***************************************************************************)
\* The requests to process_model that are served at the same time.
Requests == {1, 2}

NoMedia == [p \in {} |-> 0]

NoPath == [dir |-> None, name |-> <<>>]

\* The locals of process_model before the request has arrived.
NoView ==
    [pc |-> "idle", form |-> None, timestamp |-> -1, input_path |-> NoPath,
     arch_path |-> NoPath, training_path |-> NoPath, output_path |-> NoPath,
     result |-> None, response |-> None]

\* Home when no visit is being served.
NoHome == [pc |-> "idle", current_time |-> -1, directories |-> <<>>]

(***************************************************************************)
(* The initial state and the submission of a request.                      *)
(***************************************************************************)
Init ==
    /\ pc = "idle"
    /\ req = NoRequest
    /\ wfile = NoFile
    /\ module_ns = NoNamespace
    /\ model_class = None
    /\ model = NoModel
    /\ load_log = <<>>
    /\ original_size = -1
    /\ strategy_log = <<>>
    /\ imp = NoImportance
    /\ prune_path = None
    /\ structured_err = NoExc
    /\ student = NoModel
    /\ script_ns = NoNamespace
    /\ training_function = None
    /\ calls = <<>>
    /\ optimized_model = NoModel
    /\ summary_text = None
    /\ files = NoFiles
    /\ optimized_size = -1
    /\ result = NoResult
    /\ escaped = NoExc
    /\ sys_modules = NoModules
    /\ script_import = None
    /\ ctor_raised = NoExc
    /\ now = 0
    /\ media = NoMedia
    /\ views = [r \in Requests |-> NoView]
    /\ home = NoHome

\* A caller invokes optimize_model(input_path, output_path, technique,
\* **kwargs); the weights file at input_path is whatever was uploaded.
Submit ==
    /\ pc = "idle"
    /\ \E t \in Techniques, lk \in LoadKwargs, f \in WeightFiles,
          o \in OutputPaths :
         \E tk \in TechniqueKwargs(t) :
            /\ req' = [technique |-> t, output_path |-> o, kwargs |-> lk @@ tk]
            /\ wfile' = f
    /\ pc' = "load_model"
    /\ UNCHANGED <<sys_modules, script_import, ctor_raised>>
    /\ UNCHANGED web
    /\ UNCHANGED <<module_ns, model_class, model, load_log, original_size,
                   strategy_log, imp, prune_path, structured_err, student,
                   script_ns, training_function, calls, optimized_model,
                   summary_text, files, optimized_size, result, escaped>>

(***************************************************************************)
(* load_model                                                              *)
(***************************************************************************)
ArchitecturePath == KwGet(req.kwargs, "architecture_path", None)
ClassName == KwGet(req.kwargs, "class_name", None)
InitParams == KwGet(req.kwargs, "init_params", "default")

\* The object torch.load returns on the path without an architecture file.
LegacyObject(f) ==
    CASE f.wrap = "object_train" -> Instance("Net", "default", "loaded")
      [] f.wrap = "object_eval" ->
            [Instance("Net", "default", "loaded") EXCEPT !.mode = "eval"]
      [] OTHER -> [NoModel EXCEPT !.oid = "loaded", !.cls = "dict"]

\* Lines 30-34: no architecture file, the file is loaded as a whole object.
LoadLegacy ==
    /\ pc = "load_model"
    /\ ArchitecturePath = None
    /\ IF wfile.wrap = "corrupt"
       THEN /\ RaiseInLoad(LibExc("UnpicklingError", "invalid load key"))
            /\ UNCHANGED model
       ELSE /\ model' = LegacyObject(wfile)
            /\ pc' = "get_size"
            /\ UNCHANGED <<result, escaped>>
    /\ UNCHANGED <<sys_modules, script_import, ctor_raised>>
    /\ UNCHANGED web
    /\ UNCHANGED <<req, wfile, module_ns, model_class, load_log, original_size,
                   strategy_log, imp, prune_path, structured_err, student,
                   script_ns, training_function, calls, optimized_model,
                   summary_text, files, optimized_size>>

\* Lines 36-40: the architecture file is executed in a new module.
LoadArchitecture ==
    /\ pc = "load_model"
    /\ ArchitecturePath # None
    /\ \E outcome \in {"ok"} \cup UserRaises :
         IF outcome = "ok"
         THEN /\ module_ns' = ArchNamespace
              /\ pc' = "resolve_class"
              /\ UNCHANGED <<result, escaped>>
         ELSE /\ RaiseInLoad(UserExc(outcome))
              /\ UNCHANGED module_ns
    /\ sys_modules' = Register(sys_modules, "model_architecture", "this")
    /\ UNCHANGED web
    /\ UNCHANGED <<req, wfile, model_class, model, load_log, original_size,
                   strategy_log, imp, prune_path, structured_err, student,
                   script_ns, training_function, calls, optimized_model,
                   summary_text, files, optimized_size, script_import,
                   ctor_raised>>

\* Lines 43-56: the class is looked up by name and checked.
ResolveClass ==
    /\ pc = "resolve_class"
    /\ IF ClassName = None
       THEN /\ RaiseInLoad(Exc("Exception",
                    Msg("class_name is required", "", {}, "")))
            /\ UNCHANGED model_class
       ELSE IF ClassName \notin DOMAIN module_ns
       THEN /\ RaiseInLoad(Exc("Exception",
                    Msg("Class not found", ClassName, PublicNames(module_ns), "")))
            /\ UNCHANGED model_class
       ELSE IF ~IsModuleClass(module_ns[ClassName])
       THEN /\ RaiseInLoad(Exc("Exception",
                    Msg("not a valid nn.Module class", ClassName, {}, "")))
            /\ UNCHANGED model_class
       ELSE /\ model_class' = ClassName
            /\ pc' = "instantiate"
            /\ UNCHANGED <<result, escaped>>
    /\ UNCHANGED <<sys_modules, script_import, ctor_raised>>
    /\ UNCHANGED web
    /\ UNCHANGED <<req, wfile, module_ns, model, load_log, original_size,
                   strategy_log, imp, prune_path, structured_err, student,
                   script_ns, training_function, calls, optimized_model,
                   summary_text, files, optimized_size>>

\* A message that leaves the parameters out.
InstantiationErrorNoParams(cls, params, e) ==
    Exc("Exception", [e.msg EXCEPT !.wraps = <<"Failed to instantiate">> \o @,
                                   !.subject = cls])

\* Line 66: the TypeError of the constructor is reported with the class
\* name and the parameters used.
InstantiationError(cls, params, e) ==
    Exc("Exception", [e.msg EXCEPT !.wraps = <<"Failed to instantiate">> \o @,
                                   !.subject = cls, !.params = params])

\* Lines 58-66: the class is instantiated with init_params; a TypeError
\* of the constructor is raised again with the class name and the
\* parameters, any other exception goes on as it is.
InstantiateModel ==
    /\ pc = "instantiate"
    /\ \E outcome \in {"ok", "TypeError"} \cup UserRaises :
         CASE outcome = "ok" ->
                /\ model' = Instance(model_class, InitParams, "loaded")
                /\ pc' = "load_weights"
                /\ UNCHANGED <<result, escaped, ctor_raised>>
           [] outcome = "TypeError" ->
                /\ ctor_raised' =
                      LibExc("TypeError", "unexpected keyword argument")
                /\ RaiseInLoad(InstantiationError(model_class, InitParams,
                                                  ctor_raised'))
                /\ UNCHANGED model
           [] OTHER ->
                /\ ctor_raised' = UserExc(outcome)
                /\ RaiseInLoad(ctor_raised')
                /\ UNCHANGED model
    /\ UNCHANGED <<sys_modules, script_import>>
    /\ UNCHANGED web
    /\ UNCHANGED <<req, wfile, module_ns, model_class, load_log, original_size,
                   strategy_log, imp, prune_path, structured_err, student,
                   script_ns, training_function, calls, optimized_model,
                   summary_text, files, optimized_size>>

\* An unwrapping that looks for model_state_dict first.
UnwrapModelKeyFirst(blob) ==
    IF blob.kind = "dict"
    THEN IF "model_state_dict" \in DOMAIN blob.items
         THEN blob.items["model_state_dict"]
         ELSE IF "state_dict" \in DOMAIN blob.items
              THEN blob.items["state_dict"]
              ELSE blob
    ELSE blob

\* Lines 72-76: a dict holding the key state_dict, or else the key
\* model_state_dict, is replaced by the value under that key.
Unwrap(blob) ==
    IF blob.kind = "dict"
    THEN IF "state_dict" \in DOMAIN blob.items THEN blob.items["state_dict"]
         ELSE IF "model_state_dict" \in DOMAIN blob.items
              THEN blob.items["model_state_dict"]
              ELSE blob
    ELSE blob

\* nn.Module.load_state_dict: the keys the state dict lacks, the keys the
\* model does not have and the common keys whose shapes differ.
MissingKeys(m, sd) == DOMAIN StateDictOf(m).items \ DOMAIN sd.items
UnexpectedKeys(m, sd) == DOMAIN sd.items \ DOMAIN StateDictOf(m).items
MismatchedKeys(m, sd) ==
    {k \in DOMAIN sd.items \cap DOMAIN StateDictOf(m).items :
        sd.items[k] # StateDictOf(m).items[k]}

\* A lenient mode that skips the entries whose shapes differ.
LoadStateDictSkipsMismatched(m, sd, strict) ==
    strict /\ MissingKeys(m, sd) \cup UnexpectedKeys(m, sd)
                 \cup MismatchedKeys(m, sd) # {}

\* load_state_dict raises RuntimeError: with strict=True on any missing,
\* unexpected or mismatched key, with strict=False on a mismatched key.
LoadStateDictFails(m, sd, strict) ==
    IF strict
    THEN MissingKeys(m, sd) \cup UnexpectedKeys(m, sd) \cup MismatchedKeys(m, sd) # {}
    ELSE MismatchedKeys(m, sd) # {}

\* The entries that fit are copied into the model, also when the call
\* ends by raising.
CopyWeights(m, sd) ==
    [m EXCEPT !.layers =
        [i \in 1..Len(m.layers) |->
            IF /\ m.layers[i].name \in DOMAIN sd.items
               /\ m.layers[i].name \notin MismatchedKeys(m, sd)
            THEN [m.layers[i] EXCEPT !.src = "file"]
            ELSE m.layers[i]]]

\* model.eval()
Eval(m) == [m EXCEPT !.mode = "eval"]

\* Lines 68-87: the weights are loaded, unwrapped and applied, strictly
\* first and leniently after a RuntimeError; then the model is set to
\* inference mode.
LoadWeights ==
    /\ pc = "load_weights"
    /\ IF wfile.wrap = "corrupt"
       THEN /\ RaiseInLoad(LibExc("UnpicklingError", "invalid load key"))
            /\ UNCHANGED <<model, load_log>>
       ELSE LET sd == Unwrap(FileBlob(wfile))
                loaded == CopyWeights(model, sd)
            IN IF sd.kind # "dict"
               THEN /\ load_log' = <<[state_dict |-> sd, strict |-> TRUE]>>
                    /\ RaiseInLoad(LibExc("TypeError",
                            "Expected state_dict to be dict-like"))
                    /\ UNCHANGED model
               ELSE IF ~LoadStateDictFails(model, sd, TRUE)
               THEN /\ load_log' = <<[state_dict |-> sd, strict |-> TRUE]>>
                    /\ model' = Eval(loaded)
                    /\ pc' = "get_size"
                    /\ UNCHANGED <<result, escaped>>
               ELSE IF ~LoadStateDictFails(model, sd, FALSE)
               THEN /\ load_log' = <<[state_dict |-> sd, strict |-> TRUE],
                                     [state_dict |-> sd, strict |-> FALSE]>>
                    /\ model' = Eval(loaded)
                    /\ pc' = "get_size"
                    /\ UNCHANGED <<result, escaped>>
               ELSE /\ load_log' = <<[state_dict |-> sd, strict |-> TRUE],
                                     [state_dict |-> sd, strict |-> FALSE]>>
                    /\ model' = loaded
                    /\ RaiseInLoad(LibExc("RuntimeError", "size mismatch"))
    /\ UNCHANGED <<sys_modules, script_import, ctor_raised>>
    /\ UNCHANGED web
    /\ UNCHANGED <<req, wfile, module_ns, model_class, original_size,
                   strategy_log, imp, prune_path, structured_err, student,
                   script_ns, training_function, calls, optimized_model,
                   summary_text, files, optimized_size>>

\* Line 346: original_size = self.get_model_size(input_path)
GetOriginalSize ==
    /\ pc = "get_size"
    /\ original_size' = GetModelSize(FileBytes(wfile))
    /\ pc' = "dispatch"
    /\ UNCHANGED <<sys_modules, script_import, ctor_raised>>
    /\ UNCHANGED web
    /\ UNCHANGED <<req, wfile, module_ns, model_class, model, load_log,
                   strategy_log, imp, prune_path, structured_err, student,
                   script_ns, training_function, calls, optimized_model,
                   summary_text, files, optimized_size, result, escaped>>

(***************************************************************************)
(* optimize_model: the dispatch on the technique name.                     *)
(***************************************************************************)
\* A fraction is kept in thousandths: percent / 100.0.
FractionOfPercent(percent) == percent * 10

\* The fraction 1.0.
One == FractionOfPercent(100)

Call(name, args) == [name |-> name, args |-> args]

\* Line 351: self.prune_model(model, amount=amount); importance_metric
\* and global_pruning take the defaults of prune_model's signature.
PruneCall(kwargs) ==
    Call("prune_model",
         [amount |-> FractionOfPercent(KwGet(kwargs, "pruning_amount", 50)),
          importance_metric |-> "l1",
          global_pruning |-> TRUE])

QuantizeCall(kwargs) ==
    Call("quantize_model",
         [quantization_type |-> KwGet(kwargs, "quantization_type", "dynamic")])

CrdCall(kwargs, teacher) ==
    Call("crd_distillation",
         [teacher_model |-> teacher.oid,
          architecture_path |-> KwGet(kwargs, "architecture_path", None),
          student_class_name |-> KwGet(kwargs, "student_class_name", None),
          student_init_params |-> KwGet(kwargs, "student_init_params", "default"),
          training_script_path |-> KwGet(kwargs, "training_script_path", None)])

\* Lines 349-369.
Dispatch ==
    /\ pc = "dispatch"
    /\ CASE req.technique = "pruning" ->
              /\ strategy_log' = Append(strategy_log, PruneCall(req.kwargs))
              /\ pc' = "prune_select"
              /\ UNCHANGED <<result, escaped>>
         [] req.technique = "quantization" ->
              /\ strategy_log' = Append(strategy_log, QuantizeCall(req.kwargs))
              /\ pc' = "quantize"
              /\ UNCHANGED <<result, escaped>>
         [] req.technique = "crd" ->
              /\ strategy_log' = Append(strategy_log, CrdCall(req.kwargs, model))
              /\ pc' = "crd_load_architecture"
              /\ UNCHANGED <<result, escaped>>
         [] OTHER ->
              /\ Deliver(Exc("ValueError",
                     Msg("Unknown technique", req.technique, {}, "")))
              /\ UNCHANGED strategy_log
    /\ UNCHANGED <<sys_modules, script_import, ctor_raised>>
    /\ UNCHANGED web
    /\ UNCHANGED <<req, wfile, module_ns, model_class, model, load_log,
                   original_size, imp, prune_path, structured_err, student,
                   script_ns, training_function, calls, optimized_model,
                   summary_text, files, optimized_size>>

(***************************************************************************)
(* prune_model                                                             *)
(***************************************************************************)
\* The arguments of the strategy call in progress.
CurrentArgs == strategy_log[Len(strategy_log)].args

\* prune_model is called by optimize_model, or directly by another caller.
CalledDirectly == req = NoRequest

\* An exception leaves prune_model.
StrategyRaise(e) ==
    IF CalledDirectly
    THEN /\ pc' = "strategy_raised"
         /\ escaped' = e
         /\ UNCHANGED result
    ELSE Deliver(e)

StrategyReturnPc == IF CalledDirectly THEN "strategy_returned" ELSE "summary"

MagnitudeImportance(p) == [cls |-> "MagnitudeImportance", p |-> p]

\* A selection that knows no default.
SelectImportanceNoDefault(metric) ==
    CASE metric = "l1" -> MagnitudeImportance(1)
      [] metric = "l2" -> MagnitudeImportance(2)
      [] metric = "taylor" -> [cls |-> "TaylorImportance", p |-> 0]
      [] metric = "random" -> [cls |-> "RandomImportance", p |-> 0]
      [] OTHER -> NoImportance

\* Lines 155-165: the importance object for a metric name.
SelectImportance(metric) ==
    CASE metric = "l1" -> MagnitudeImportance(1)
      [] metric = "l2" -> MagnitudeImportance(2)
      [] metric = "taylor" -> [cls |-> "TaylorImportance", p |-> 0]
      [] metric = "random" -> [cls |-> "RandomImportance", p |-> 0]
      [] OTHER -> MagnitudeImportance(1)

PruneSelect ==
    /\ pc = "prune_select"
    /\ imp' = SelectImportance(CurrentArgs.importance_metric)
    /\ pc' = "prune_structured"
    /\ UNCHANGED <<sys_modules, script_import, ctor_raised>>
    /\ UNCHANGED web
    /\ UNCHANGED <<req, wfile, module_ns, model_class, model, load_log,
                   original_size, strategy_log, prune_path, structured_err,
                   student, script_ns, training_function, calls,
                   optimized_model, summary_text, files, optimized_size,
                   result, escaped>>

\* isinstance(m, (nn.Linear, nn.Conv2d))
IsPrunable(layer) == layer.kind \in {"conv", "linear"}

PrunableIndices(m) == {i \in 1..Len(m.layers) : IsPrunable(m.layers[i])}

Max(S) == CHOOSE x \in S : \A y \in S : y <= x

\* Lines 169-173: the last prunable layer, if there is one.
IgnoredLayers(m) ==
    IF PrunableIndices(m) # {} THEN {Max(PrunableIndices(m))} ELSE {}

\* The fraction is one the pruning libraries accept.
ValidFraction(amount) == 0 <= amount /\ amount <= One

\* pruner.step(): every prunable layer that is not ignored keeps
\* int(channels * (1 - ch_sparsity)) of its channels.
StructuredPruned(m, amount, ignored) ==
    [m EXCEPT !.layers =
        [i \in 1..Len(m.layers) |->
            IF IsPrunable(m.layers[i]) /\ i \notin ignored
            THEN [m.layers[i] EXCEPT
                    !.ch = (m.layers[i].ch * (One - amount)) \div One]
            ELSE m.layers[i]]]

\* Lines 167-187: structured pruning with torch_pruning; lines 189-191: an
\* exception of a class derived from Exception starts the fallback.
PruneStructured ==
    /\ pc = "prune_structured"
    /\ \E outcome \in {"ok", "RuntimeError", "SystemExit"} :
         CASE outcome = "ok" ->
                /\ model.is_module
                /\ ValidFraction(CurrentArgs.amount)
                /\ model' = StructuredPruned(model, CurrentArgs.amount,
                                             IgnoredLayers(model))
                /\ optimized_model' = model'
                /\ prune_path' = "structured"
                /\ pc' = StrategyReturnPc
                /\ UNCHANGED <<structured_err, result, escaped>>
           [] outcome = "RuntimeError" ->
                /\ structured_err' =
                      IF model.is_module
                      THEN LibExc("RuntimeError", "structured pruning failed")
                      ELSE LibExc("AttributeError", "object has no attribute 'modules'")
                /\ pc' = "prune_fallback"
                /\ UNCHANGED <<model, optimized_model, prune_path, result, escaped>>
           [] OTHER ->
                \* the forward pass of the user's model, run to trace it
                /\ model.is_module
                /\ StrategyRaise(UserExc(outcome))
                /\ UNCHANGED <<model, optimized_model, prune_path, structured_err>>
    /\ UNCHANGED <<sys_modules, script_import, ctor_raised>>
    /\ UNCHANGED web
    /\ UNCHANGED <<req, wfile, module_ns, model_class, load_log,
                   original_size, strategy_log, imp, student, script_ns,
                   training_function, calls, summary_text, files,
                   optimized_size>>

\* A fallback that removes the pruned weights instead of zeroing them.
UnstructuredPrunedShrinking(m, amount) ==
    [m EXCEPT !.layers =
        [i \in 1..Len(m.layers) |->
            IF IsPrunable(m.layers[i])
            THEN [m.layers[i] EXCEPT
                    !.ch = (m.layers[i].ch * (One - amount)) \div One]
            ELSE m.layers[i]]]

\* prune.l1_unstructured(module, 'weight', amount) followed by
\* prune.remove(module, 'weight'): the fraction of the weights is zeroed in
\* the tensor itself and no mask stays on the module.
UnstructuredPruned(m, amount) ==
    [m EXCEPT !.layers =
        [i \in 1..Len(m.layers) |->
            IF IsPrunable(m.layers[i])
            THEN [m.layers[i] EXCEPT !.zero_pct = amount, !.mask = FALSE]
            ELSE m.layers[i]]]

\* Line 200: raise Exception(f"Pruning failed: {str(fallback_error)}")
PruningFailed(fallback_error) == Wrapped("Pruning failed", fallback_error)

\* Lines 193-200: the fallback, unstructured pruning of every Conv2d and
\* Linear module.
PruneFallback ==
    /\ pc = "prune_fallback"
    /\ IF ~model.is_module
       THEN /\ StrategyRaise(PruningFailed(
                   LibExc("AttributeError", "object has no attribute 'named_modules'")))
            /\ UNCHANGED <<model, optimized_model, prune_path>>
       ELSE IF ~ValidFraction(CurrentArgs.amount) /\ PrunableIndices(model) # {}
       THEN /\ StrategyRaise(PruningFailed(
                   LibExc("ValueError", "amount should be in the range [0, 1]")))
            /\ UNCHANGED <<model, optimized_model, prune_path>>
       ELSE /\ model' = UnstructuredPruned(model, CurrentArgs.amount)
            /\ optimized_model' = model'
            /\ prune_path' = "fallback"
            /\ pc' = StrategyReturnPc
            /\ UNCHANGED <<result, escaped>>
    /\ UNCHANGED <<sys_modules, script_import, ctor_raised>>
    /\ UNCHANGED web
    /\ UNCHANGED <<req, wfile, module_ns, model_class, load_log,
                   original_size, strategy_log, imp, structured_err, student,
                   script_ns, training_function, calls, summary_text, files,
                   optimized_size>>

(***************************************************************************)
(* quantize_model                                                          *)
(***************************************************************************)
\* quantize_dynamic or prepare/convert: the Linear and Conv2d layers hold
\* 8-bit integer weights afterwards.
Quantized(m) ==
    [m EXCEPT !.mode = "eval",
              !.layers = [i \in 1..Len(m.layers) |->
                            IF IsPrunable(m.layers[i])
                            THEN [m.layers[i] EXCEPT !.dtype = "qint8"]
                            ELSE m.layers[i]]]

\* Line 231: raise Exception(f"Quantization failed: {str(e)}")
QuantizationFailed(e) == Wrapped("Quantization failed", e)

\* Lines 203-231.
Quantize ==
    /\ pc = "quantize"
    /\ \E outcome \in {"ok", "RuntimeError"} :
         IF outcome = "ok"
         THEN /\ model.is_module
              /\ model' = IF CurrentArgs.quantization_type = "dynamic"
                          THEN Eval(model) ELSE Quantized(model)
              /\ optimized_model' = [Quantized(model) EXCEPT !.oid = "quantized"]
              /\ pc' = "summary"
              /\ UNCHANGED <<result, escaped>>
         ELSE /\ Deliver(QuantizationFailed(
                     IF model.is_module
                     THEN LibExc("RuntimeError", "quantization backend error")
                     ELSE LibExc("AttributeError", "object has no attribute 'cpu'")))
              /\ UNCHANGED <<model, optimized_model>>
    /\ UNCHANGED <<sys_modules, script_import, ctor_raised>>
    /\ UNCHANGED web
    /\ UNCHANGED <<req, wfile, module_ns, model_class, load_log,
                   original_size, strategy_log, imp, prune_path, structured_err,
                   student, script_ns, training_function, calls, summary_text,
                   files, optimized_size>>

(***************************************************************************)
(* crd_distillation                                                        *)
(***************************************************************************)
\* Line 328: `except Exception as e` of crd_distillation.
CrdExcept(e) ==
    IF IsException(e.cls) THEN Wrapped("CRD distillation failed", e) ELSE e

CrdRaise(e) == Deliver(CrdExcept(e))

\* Lines 250-254: the architecture file is executed again.
CrdLoadArchitecture ==
    /\ pc = "crd_load_architecture"
    /\ IF CurrentArgs.architecture_path = None
       THEN /\ CrdRaise(LibExc("AttributeError",
                   "'NoneType' object has no attribute 'loader'"))
            /\ UNCHANGED <<module_ns, sys_modules>>
       ELSE /\ sys_modules' =
                   Register(sys_modules, "model_architecture", "this")
            /\ \E outcome \in {"ok"} \cup UserRaises :
                 IF outcome = "ok"
                 THEN /\ module_ns' = ArchNamespace
                      /\ pc' = "crd_resolve_student"
                      /\ UNCHANGED <<result, escaped>>
                 ELSE /\ CrdRaise(UserExc(outcome))
                      /\ UNCHANGED module_ns
    /\ UNCHANGED <<script_import, ctor_raised>>
    /\ UNCHANGED web
    /\ UNCHANGED <<req, wfile, model_class, model, load_log, original_size,
                   strategy_log, imp, prune_path, structured_err, student,
                   script_ns, training_function, calls, optimized_model,
                   summary_text, files, optimized_size>>

\* Lines 257-263: the student class is looked up by name and checked.
CrdResolveStudent ==
    /\ pc = "crd_resolve_student"
    /\ LET name == CurrentArgs.student_class_name
       IN IF name \notin DOMAIN module_ns
          THEN CrdRaise(Exc("Exception",
                   Msg("Student class not found", name, PublicNames(module_ns), "")))
          ELSE IF ~IsModuleClass(module_ns[name])
          THEN CrdRaise(Exc("Exception",
                   Msg("not a valid nn.Module class", name, {}, "")))
          ELSE /\ pc' = "crd_instantiate"
               /\ UNCHANGED <<result, escaped>>
    /\ UNCHANGED <<sys_modules, script_import, ctor_raised>>
    /\ UNCHANGED web
    /\ UNCHANGED <<req, wfile, module_ns, model_class, model, load_log,
                   original_size, strategy_log, imp, prune_path, structured_err,
                   student, script_ns, training_function, calls,
                   optimized_model, summary_text, files, optimized_size>>

\* Line 266: student_model = student_class(**student_init_params)
CrdInstantiate ==
    /\ pc = "crd_instantiate"
    /\ \E outcome \in {"ok", "TypeError"} \cup UserRaises :
         IF outcome = "ok"
         THEN /\ student' = Instance(CurrentArgs.student_class_name,
                                     CurrentArgs.student_init_params, "student")
              /\ pc' = "crd_load_script"
              /\ UNCHANGED <<result, escaped>>
         ELSE /\ CrdRaise(IF outcome = "TypeError"
                          THEN LibExc("TypeError", "unexpected keyword argument")
                          ELSE UserExc(outcome))
              /\ UNCHANGED student
    /\ UNCHANGED <<sys_modules, script_import, ctor_raised>>
    /\ UNCHANGED web
    /\ UNCHANGED <<req, wfile, module_ns, model_class, model, load_log,
                   original_size, strategy_log, imp, prune_path, structured_err,
                   script_ns, training_function, calls, optimized_model,
                   summary_text, files, optimized_size>>

\* The names a training script may bind at its top level.
EntryPointNames == <<"train_crd", "train_distillation", "train", "distill">>

EntryPointSet == {EntryPointNames[i] : i \in 1..Len(EntryPointNames)}

OtherScriptNames ==
    [n \in {"__name__", "evaluate", "Dataset", "EPOCHS", "_fit"} |->
        CASE n = "Dataset" -> "class"
          [] n \in {"EPOCHS", "__name__"} -> "value"
          [] OTHER -> "function"]

ScriptNamespaces ==
    { [n \in {e \in EntryPointSet : k[e] # "absent"}
             \cup (IF more THEN DOMAIN OtherScriptNames ELSE {"__name__"}) |->
         IF n \in EntryPointSet THEN k[n] ELSE OtherScriptNames[n]] :
      k \in [EntryPointSet -> {"absent", "function", "value"}],
      more \in BOOLEAN }

\* Lines 270-280: the training script is registered as training_module and
\* executed in a new module.  A script that needs the classes of the
\* architecture file imports model_architecture, and gets the module
\* sys.modules holds under that name while the script runs.
CrdLoadScript ==
    /\ pc = "crd_load_script"
    /\ sys_modules' = Register(sys_modules, "training_module", "this")
    /\ \E imports \in BOOLEAN :
         script_import' = IF imports
                          THEN Import(sys_modules, "model_architecture")
                          ELSE None
    /\ \E outcome \in {"ok"} \cup UserRaises :
         IF outcome = "ok"
         THEN /\ script_ns' \in ScriptNamespaces
              /\ pc' = "crd_resolve_entry"
              /\ UNCHANGED <<result, escaped>>
         ELSE /\ CrdRaise(UserExc(outcome))
              /\ UNCHANGED script_ns
    /\ UNCHANGED web
    /\ UNCHANGED <<req, wfile, module_ns, model_class, model, load_log,
                   original_size, strategy_log, imp, prune_path, structured_err,
                   student, training_function, calls, optimized_model,
                   summary_text, files, optimized_size, ctor_raised>>

\* A lookup that takes the first name the module has, callable or not.
RECURSIVE FirstPresent(_, _)
FirstPresent(names, ns) ==
    IF names = <<>> THEN None
    ELSE IF Head(names) \in DOMAIN ns
         THEN Head(names)
         ELSE FirstPresent(Tail(names), ns)

\* Lines 284-291: the first of the names, in the order of the list, that
\* the module has and whose value is callable.
RECURSIVE FirstCallable(_, _)
FirstCallable(names, ns) ==
    IF names = <<>> THEN None
    ELSE IF Head(names) \in DOMAIN ns /\ IsCallable(ns[Head(names)])
         THEN Head(names)
         ELSE FirstCallable(Tail(names), ns)

ResolveEntryPoint(ns) == FirstCallable(EntryPointNames, ns)

\* A listing that does not test callable().
AvailableNames(ns) == {n \in DOMAIN ns : ~IsPrivate(n)}

\* Lines 294-295: the callable names of the module that do not start with
\* an underscore.
AvailableFuncs(ns) == {n \in DOMAIN ns : IsCallable(ns[n]) /\ ~IsPrivate(n)}

ExpectedSignature == "def train(teacher_model, student_model) -> trained_student"

\* Lines 296-301.
NoTrainingFunction(ns) ==
    Exc("Exception",
        [Msg("No training function found", "", AvailableFuncs(ns), "")
            EXCEPT !.hint = ExpectedSignature])

\* Lines 284-301.
CrdResolveEntry ==
    /\ pc = "crd_resolve_entry"
    /\ training_function' = ResolveEntryPoint(script_ns)
    /\ IF training_function' = None
       THEN CrdRaise(NoTrainingFunction(script_ns))
       ELSE /\ pc' = "crd_invoke"
            /\ UNCHANGED <<result, escaped>>
    /\ UNCHANGED <<sys_modules, script_import, ctor_raised>>
    /\ UNCHANGED web
    /\ UNCHANGED <<req, wfile, module_ns, model_class, model, load_log,
                   original_size, strategy_log, imp, prune_path, structured_err,
                   student, script_ns, calls, optimized_model, summary_text,
                   files, optimized_size>>

\* Line 312: training_function(teacher_model, student_model)
Invocation(name, teacher, student_model) ==
    [name |-> name, teacher |-> teacher.oid, student |-> student_model.oid]

\* Line 314: raise Exception(f"Training function failed: {str(train_error)}")
TrainingFunctionFailed(e) == Wrapped("Training function failed", e)

\* An object that is no model, returned by a training function.
NotAModel == [NoModel EXCEPT !.oid = "history", !.cls = "dict"]

\* Lines 311-323: the entry point is called; what it returns is the result
\* of the strategy.
CrdInvoke ==
    /\ pc = "crd_invoke"
    /\ calls' = Append(calls, Invocation(training_function, model, student))
    /\ \E outcome \in {"student", "other", "none"} \cup UserRaises :
         CASE outcome = "student" ->
                /\ optimized_model' = student
                /\ pc' = "summary"
                /\ UNCHANGED <<result, escaped>>
           [] outcome = "other" ->
                /\ optimized_model' = NotAModel
                /\ pc' = "summary"
                /\ UNCHANGED <<result, escaped>>
           [] outcome = "none" ->
                /\ CrdRaise(Exc("Exception",
                       Msg("Training function returned None", "", {}, "")))
                /\ UNCHANGED optimized_model
           [] OTHER ->
                /\ CrdRaise(IF IsException(outcome)
                            THEN TrainingFunctionFailed(UserExc(outcome))
                            ELSE UserExc(outcome))
                /\ UNCHANGED optimized_model
    /\ UNCHANGED <<sys_modules, script_import, ctor_raised>>
    /\ UNCHANGED web
    /\ UNCHANGED <<req, wfile, module_ns, model_class, model, load_log,
                   original_size, strategy_log, imp, prune_path, structured_err,
                   student, script_ns, training_function, summary_text, files,
                   optimized_size>>

(***************************************************************************)
(* Artifacts and metrics.                                                  *)
(***************************************************************************)
\* Lines 130-150: torchinfo runs the model on an input of shape
\* (1, 3, 32, 32); an exception of a class derived from Exception becomes
\* the text of the summary.
GenerateSummary ==
    /\ pc = "summary"
    /\ \E outcome \in {"ok", "RuntimeError", "SystemExit"} :
         CASE outcome = "ok" ->
                /\ optimized_model.is_module
                /\ summary_text' = "summary"
                /\ optimized_model' = Eval(optimized_model)
                /\ pc' = "save"
                /\ UNCHANGED <<result, escaped>>
           [] outcome = "RuntimeError" ->
                /\ summary_text' = "Error generating architecture summary"
                /\ optimized_model' = IF optimized_model.is_module
                                      THEN Eval(optimized_model)
                                      ELSE optimized_model
                /\ pc' = "save"
                /\ UNCHANGED <<result, escaped>>
           [] OTHER ->
                /\ optimized_model.is_module
                /\ Deliver(UserExc(outcome))
                /\ UNCHANGED <<summary_text, optimized_model>>
    /\ UNCHANGED <<sys_modules, script_import, ctor_raised>>
    /\ UNCHANGED web
    /\ UNCHANGED <<req, wfile, module_ns, model_class, model, load_log,
                   original_size, strategy_log, imp, prune_path, structured_err,
                   student, script_ns, training_function, calls, files,
                   optimized_size>>

\* Line 102: raise Exception(f"Failed to save model: {str(e)}")
SaveFailed(e) == Wrapped("Failed to save model", e)

FileContent(kind, bytes) == [kind |-> kind, bytes |-> bytes]

\* open(path, 'w') and write: the file at path holds the content.
WriteFile(fs, path, content) == (path :> content) @@ fs

\* Lines 96-102 and 375: torch.save(model.state_dict(), output_path).  A
\* write that fails may leave a truncated file behind.
SaveModel ==
    /\ pc = "save"
    /\ \E outcome \in {"ok", "OSError"} :
         IF outcome = "ok"
         THEN /\ optimized_model.is_module
              /\ files' = WriteFile(files, req.output_path,
                              FileContent("weights", SerializedBytes(optimized_model)))
              /\ pc' = "write_summary"
              /\ UNCHANGED <<result, escaped>>
         ELSE /\ Deliver(SaveFailed(
                     IF optimized_model.is_module
                     THEN LibExc("OSError", "No space left on device")
                     ELSE LibExc("AttributeError",
                                 "object has no attribute 'state_dict'")))
              /\ \E truncated \in BOOLEAN :
                    files' = IF truncated /\ optimized_model.is_module
                             THEN WriteFile(files, req.output_path,
                                            FileContent("truncated", 0))
                             ELSE files
    /\ UNCHANGED <<sys_modules, script_import, ctor_raised>>
    /\ UNCHANGED web
    /\ UNCHANGED <<req, wfile, module_ns, model_class, model, load_log,
                   original_size, strategy_log, imp, prune_path, structured_err,
                   student, script_ns, training_function, calls,
                   optimized_model, summary_text, optimized_size>>

\* Lines 378-380: the summary text is written to the derived path.
WriteSummary ==
    /\ pc = "write_summary"
    /\ \E outcome \in {"ok", "OSError"} :
         IF outcome = "ok"
         THEN /\ files' = WriteFile(files, SummaryPath(req.output_path),
                              FileContent(summary_text, SummaryBytes))
              /\ pc' = "get_optimized_size"
              /\ UNCHANGED <<result, escaped>>
         ELSE /\ Deliver(LibExc("OSError", "No space left on device"))
              /\ UNCHANGED files
    /\ UNCHANGED <<sys_modules, script_import, ctor_raised>>
    /\ UNCHANGED web
    /\ UNCHANGED <<req, wfile, module_ns, model_class, model, load_log,
                   original_size, strategy_log, imp, prune_path, structured_err,
                   student, script_ns, training_function, calls,
                   optimized_model, summary_text, optimized_size>>

\* Lines 114-122: the text of the summary file derived from model_path, or
\* the notice that there is none.
GetModelArchitecture(fs, model_path) ==
    IF SummaryPath(model_path) \in DOMAIN fs
    THEN fs[SummaryPath(model_path)].kind
    ELSE "Architecture summary not found"

\* Line 382: optimized_size = self.get_model_size(output_path)
GetOptimizedSize ==
    /\ pc = "get_optimized_size"
    /\ optimized_size' = GetModelSize(files[req.output_path].bytes)
    /\ pc' = "metrics"
    /\ UNCHANGED <<sys_modules, script_import, ctor_raised>>
    /\ UNCHANGED web
    /\ UNCHANGED <<req, wfile, module_ns, model_class, model, load_log,
                   original_size, strategy_log, imp, prune_path, structured_err,
                   student, script_ns, training_function, calls,
                   optimized_model, summary_text, files, result, escaped>>

\* round(time.time() - start_time, 2), in hundredths of a second.
ProcessingTimes == {12, 345}

\* Lines 385-395: the division raises ZeroDivisionError when the rounded
\* original size is 0.0; otherwise the success record is returned.
ComputeMetrics ==
    /\ pc = "metrics"
    /\ IF original_size = 0
       THEN Deliver(LibExc("ZeroDivisionError", "float division by zero"))
       ELSE /\ \E time \in ProcessingTimes :
                 result' = SuccessRecord(req.technique, original_size,
                              optimized_size,
                              SizeReduction(original_size, optimized_size), time)
            /\ pc' = "returned"
            /\ UNCHANGED escaped
    /\ UNCHANGED <<sys_modules, script_import, ctor_raised>>
    /\ UNCHANGED web
    /\ UNCHANGED <<req, wfile, module_ns, model_class, model, load_log,
                   original_size, strategy_log, imp, prune_path, structured_err,
                   student, script_ns, training_function, calls,
                   optimized_model, summary_text, files, optimized_size>>

(***************************************************************************)
(* The specification of one optimize_model request.                        *)
(***************************************************************************)
LoadModel ==
    \/ LoadLegacy
    \/ LoadArchitecture
    \/ ResolveClass
    \/ InstantiateModel
    \/ LoadWeights

PruneModel == PruneSelect \/ PruneStructured \/ PruneFallback

CrdDistillation ==
    \/ CrdLoadArchitecture
    \/ CrdResolveStudent
    \/ CrdInstantiate
    \/ CrdLoadScript
    \/ CrdResolveEntry
    \/ CrdInvoke

Next ==
    \/ Submit
    \/ LoadModel
    \/ GetOriginalSize
    \/ Dispatch
    \/ PruneModel
    \/ Quantize
    \/ CrdDistillation
    \/ GenerateSummary
    \/ SaveModel
    \/ WriteSummary
    \/ GetOptimizedSize
    \/ ComputeMetrics

Spec == Init /\ [][Next]_vars

(***************************************************************************)
(* The specification of a run that shares its process with other runs of   *)
(* optimize_model: the request is served by one thread of the web server   *)
(* while other threads serve other requests through the same               *)
(* model_optimizer object and the same sys.modules.                        *)
(***************************************************************************)
\* Lines 39, 253 and 275-278 as executed by another run, on its own files,
\* between two steps of this run (what another run registers before this
\* run starts is overwritten by this run before anything reads it).
OtherRunRegisters ==
    /\ pc \notin {"idle", "returned", "escaped"}
    /\ \E name \in ModuleNames :
         /\ sys_modules[name] # "other"
         /\ sys_modules' = Register(sys_modules, name, "other")
    /\ UNCHANGED web
    /\ UNCHANGED <<pc, req, wfile, module_ns, model_class, model, load_log,
                   original_size, strategy_log, imp, prune_path,
                   structured_err, student, script_ns, training_function,
                   calls, optimized_model, summary_text, files,
                   optimized_size, result, escaped, script_import,
                   ctor_raised>>

NextShared == Next \/ OtherRunRegisters

SpecShared == Init /\ [][NextShared]_vars

(***************************************************************************)
(* The specification of prune_model called on its own, with any metric     *)
(* name, fraction and flag.                                                *)
(***************************************************************************)
KnownMetrics == {"l1", "l2", "taylor", "random"}

DirectMetrics == KnownMetrics \cup {"entropy", "L1"}

DirectAmounts == {0, 500, 1500}

DirectModels ==
    { Eval(Instance("Net", "default", "loaded")),
      Eval(Instance("Net", "wide", "loaded")),
      Instance("Student", "default", "loaded"),
      Instance("Plain", "default", "loaded"),
      [NoModel EXCEPT !.oid = "loaded", !.cls = "dict"] }

InitPrune ==
    /\ pc = "prune_select"
    /\ req = NoRequest
    /\ wfile = NoFile
    /\ module_ns = NoNamespace
    /\ model_class = None
    /\ model \in DirectModels
    /\ load_log = <<>>
    /\ original_size = -1
    /\ \E a \in DirectAmounts, m \in DirectMetrics, g \in BOOLEAN :
          strategy_log = << Call("prune_model",
                               [amount |-> a, importance_metric |-> m,
                                global_pruning |-> g]) >>
    /\ imp = NoImportance
    /\ prune_path = None
    /\ structured_err = NoExc
    /\ student = NoModel
    /\ script_ns = NoNamespace
    /\ training_function = None
    /\ calls = <<>>
    /\ optimized_model = NoModel
    /\ summary_text = None
    /\ files = NoFiles
    /\ optimized_size = -1
    /\ result = NoResult
    /\ escaped = NoExc
    /\ sys_modules = NoModules
    /\ script_import = None
    /\ ctor_raised = NoExc
    /\ now = 0
    /\ media = NoMedia
    /\ views = [r \in Requests |-> NoView]
    /\ home = NoHome

NextPrune == PruneSelect \/ PruneStructured \/ PruneFallback

SpecPrune == InitPrune /\ [][NextPrune]_vars

(***************************************************************************)
(* process_model, Home and cleanup_media_directories (app/views.py,        *)
(* app/cleanup.py): two requests and the visits of the home page, served   *)
(* by the threads of one server over the files under MEDIA_ROOT.           *)
(* optimize_model is taken here by its effect on those files.              *)
(***************************************************************************)
\* The last tick of the server's clock.
MaxNow == 1

\* Ticks in a second: datetime.now() is formatted to the second, while
\* time.time() and the modification times tell the ticks apart.  With one
\* tick in a second the clock is read in whole seconds everywhere.
TicksPerSecond == 1

\* datetime.now().strftime('%Y%m%d_%H%M%S')
Strftime(t) ==
    LET Timestamps ==
            <<"20250101_120000", "20250101_120001", "20250101_120002",
              "20250101_120003", "20250101_120004">>
    IN Timestamps[(t \div TicksPerSecond) + 1]

\* os.path.splitext(name): the root and the extension, split at the last
\* dot that is not the first character.
Splitext(name) ==
    LET dots == {i \in 2..Len(name) : name[i] = "."}
    IN IF dots = {} THEN [root |-> name, ext |-> <<>>]
       ELSE [root |-> SubSeq(name, 1, Max(dots) - 1),
             ext |-> SubSeq(name, Max(dots), Len(name))]

\* re.sub(r'[^\w\s.-]', '', name): the characters that are no word
\* character, blank, dot or hyphen are taken out.
Sanitize(name) ==
    LET IsSafeChar(c) == c \notin {"$", "(", ")"}
    IN SelectSeq(name, IsSafeChar)

\* Lines 99 and 104: name_part[:50]
MaxNamePart == 50

\* The forms posted to process_model with a weights file and an
\* architecture file: any of the three techniques with a weights file of
\* an allowed extension, an unknown technique, a weights file of another
\* extension.  ModelNames are the file names a client may give to the
\* weights file.  Defects are what process_model finds wrong with a form
\* after the uploads are saved: a missing class name (line 131), a pruning
\* amount that is no number (line 167), a missing training script
\* (line 218).
Forms ==
    LET ModelNames ==
            { <<"n", ".", "p", "t", "h">>, <<"n", "$", ".", "p", "t", "h">>,
              <<"n", ".", "P", "T">> }
        Defects(technique) ==
            CASE technique = "pruning" -> {None, "amount_not_a_number"}
              [] technique = "crd" -> {None, "no_training_script"}
              [] OTHER -> {None, "no_class_name"}
    IN
    UNION { [technique : {t}, model_name : ModelNames, defect : Defects(t)] :
            t \in KnownTechniques }
    \cup [technique : {"distill"}, model_name : {<<"n", ".", "p", "t", "h">>},
          defect : {None}]
    \cup [technique : {"pruning"}, model_name : {<<"n", ".", "b", "i", "n">>},
          defect : {None}]

\* The directories under MEDIA_ROOT.
UploadDir == "model_uploads"
ProcessedDir == "processed_models"
ArchDir == "architectures"
TrainingDir == "training_scripts"

Path(dir, name) == [dir |-> dir, name |-> name]

Exists(fs, path) == path \in DOMAIN fs

\* A file is written at the path, at the time t, for the request r.
Write(fs, path, t, r) == (path :> [mtime |-> t, by |-> r]) @@ fs

\* os.remove(path) under `if os.path.exists(path)`.
Remove(fs, paths) == [p \in DOMAIN fs \ paths |-> fs[p]]

\* FileSystemStorage.get_available_name: the name itself when it is free
\* in the directory, else the root, an underscore, seven random characters
\* and the extension; the random characters differ from request to
\* request.
AvailableName(fs, dir, name, r) ==
    LET RandomChars == IF r = 1 THEN "Xk3Rq9a" ELSE "b7Ym2Wd"
    IN IF Exists(fs, Path(dir, name))
       THEN Splitext(name).root \o <<"_", RandomChars>> \o Splitext(name).ext
       ELSE name

\* Lines 96-104: the root and the extension of a sanitized file name, the
\* root cut to 50 characters.
SafeParts(name) ==
    LET parts == Splitext(Sanitize(name))
    IN [root |-> IF Len(parts.root) > MaxNamePart
                 THEN SubSeq(parts.root, 1, MaxNamePart)
                 ELSE parts.root,
        ext |-> parts.ext]

\* Lines 123-124: the name of the output file; the suffix is '_pruned' for
\* pruning and '_quantized' for every other technique.
OutputFilename(form, stamp) ==
    LET parts == SafeParts(form.model_name)
        technique_suffix ==
            IF form.technique = "pruning"
            THEN <<"_", "p", "r", "u", "n", "e", "d">>
            ELSE <<"_", "q", "u", "a", "n", "t", "i", "z", "e", "d">>
    IN <<stamp, "_">> \o parts.root \o technique_suffix \o parts.ext

SummaryOf(path) == Path(path.dir, SummaryPath(path.name))

\* Line 269: the path of the copy of the architecture file.
ArchCopyOf(path) ==
    LET ArchSuffix == <<"_", "a", "r", "c", "h", ".", "p", "y">>
        arch_output_filename ==
            Replace(Replace(path.name, PthExt, ArchSuffix), PtExt, ArchSuffix)
    IN Path(path.dir, arch_output_filename)

\* The core variables, which the web views leave alone.
core == <<pc, req, wfile, module_ns, model_class, model, load_log,
          original_size, strategy_log, imp, prune_path, structured_err,
          student, script_ns, training_function, calls, optimized_model,
          summary_text, files, optimized_size, result, escaped,
          sys_modules, script_import, ctor_raised>>

\* JsonResponse(body, status=status)
JsonResponse(success, error, status) ==
    [success |-> success, error |-> error, status |-> status]

\* The files of the request that process_model removes when it ends.
Uploads(v) == {v.input_path, v.arch_path}

\* Lines 38-125: the request arrives.  A technique outside pruning,
\* quantization and crd, or a weights file of another extension, is
\* answered at once and nothing is stored; else the timestamp is taken,
\* the two uploads are stored under names that are free in their
\* directories, and the output path is built.
Receive(r) ==
    /\ views[r].pc = "idle"
    /\ \E form \in Forms :
         LET stamp == Strftime(now)
             Lower(ext) ==
                 [i \in 1..Len(ext) |->
                     CASE ext[i] = "P" -> "p" [] ext[i] = "T" -> "t"
                       [] ext[i] = "H" -> "h" [] OTHER -> ext[i]]
             arch_name == <<"a", ".", "p", "y">>
             unique_model_filename ==
                 <<stamp, "_">> \o SafeParts(form.model_name).root
                                \o SafeParts(form.model_name).ext
             unique_arch_filename ==
                 <<stamp, "_">> \o SafeParts(arch_name).root
                                \o SafeParts(arch_name).ext
             input == Path(UploadDir,
                         AvailableName(media, UploadDir,
                             unique_model_filename, r))
             arch == Path(ArchDir,
                         AvailableName(media, ArchDir,
                             unique_arch_filename, r))
         IN IF form.technique \notin KnownTechniques
            THEN /\ views' = [views EXCEPT ![r] =
                       [@ EXCEPT !.pc = "done", !.form = form,
                          !.response =
                             JsonResponse(FALSE, "Invalid technique", 400)]]
                 /\ UNCHANGED media
            ELSE IF Lower(Splitext(form.model_name).ext) \notin {PthExt, PtExt}
            THEN /\ views' = [views EXCEPT ![r] =
                       [@ EXCEPT !.pc = "done", !.form = form,
                          !.response =
                             JsonResponse(FALSE, "Invalid model file type", 400)]]
                 /\ UNCHANGED media
            ELSE /\ media' = Write(Write(media, input, now, r), arch, now, r)
                 /\ views' = [views EXCEPT ![r] =
                       [@ EXCEPT !.pc = "saved", !.form = form,
                          !.timestamp = stamp,
                          !.input_path = input, !.arch_path = arch,
                          !.output_path =
                             Path(ProcessedDir, OutputFilename(form, stamp))]]
    /\ UNCHANGED <<now, home>>
    /\ UNCHANGED core

\* Lines 127-256: the form is checked; a rejection removes the two uploads
\* and answers 400; int() of a pruning amount that is no number raises
\* ValueError, which the handler at line 288 answers with 500 after
\* removing the two uploads.  For crd the training script is stored
\* (lines 242-252) under the timestamp and its sanitized name.
CheckForm(r) ==
    /\ views[r].pc = "saved"
    /\ LET v == views[r]
           script_name == <<"t", ".", "p", "y">>
           training_filename == <<v.timestamp, "_">> \o Sanitize(script_name)
           training == Path(TrainingDir,
                          AvailableName(media, TrainingDir,
                              training_filename, r))
       IN IF v.form.defect # None
          THEN /\ media' = Remove(media, Uploads(v))
               /\ views' = [views EXCEPT ![r] =
                     [v EXCEPT !.pc = "done",
                               !.response =
                                  IF v.form.defect = "amount_not_a_number"
                                  THEN JsonResponse(FALSE, "Server error", 500)
                                  ELSE JsonResponse(FALSE, v.form.defect, 400)]]
          ELSE IF v.form.technique = "crd"
          THEN /\ media' = Write(media, training, now, r)
               /\ views' = [views EXCEPT ![r] =
                     [v EXCEPT !.pc = "optimize", !.training_path = training]]
          ELSE /\ views' = [views EXCEPT ![r].pc = "optimize"]
               /\ UNCHANGED media
    /\ UNCHANGED <<now, home>>
    /\ UNCHANGED core

\* The files optimize_model reads for the request.
Inputs(v) ==
    {v.input_path, v.arch_path}
    \cup (IF v.form.technique = "crd" THEN {v.training_path} ELSE {})

\* Lines 258-264: optimize_model runs.  It succeeds only when the files it
\* reads exist, and then the output file and the summary file are written;
\* a failure may come after the output file was written; an exception that
\* is no Exception leaves process_model.
OptimizeModel(r) ==
    /\ views[r].pc = "optimize"
    /\ LET v == views[r]
       IN \E outcome \in {"success", "failure", "failure_after_save", "escape"} :
            CASE outcome = "success" ->
                   /\ \A p \in Inputs(v) : Exists(media, p)
                   /\ media' = Write(Write(media, v.output_path, now, r),
                                     SummaryOf(v.output_path), now, r)
                   /\ views' = [views EXCEPT ![r] =
                         [v EXCEPT !.pc = "optimized", !.result = TRUE]]
              [] outcome = "failure" ->
                   /\ UNCHANGED media
                   /\ views' = [views EXCEPT ![r] =
                         [v EXCEPT !.pc = "optimized", !.result = FALSE]]
              [] outcome = "failure_after_save" ->
                   /\ \A p \in Inputs(v) : Exists(media, p)
                   /\ media' = Write(media, v.output_path, now, r)
                   /\ views' = [views EXCEPT ![r] =
                         [v EXCEPT !.pc = "optimized", !.result = FALSE]]
              [] OTHER ->
                   /\ \A p \in Inputs(v) \ {v.input_path} : Exists(media, p)
                   /\ UNCHANGED media
                   /\ views' = [views EXCEPT ![r].pc = "aborted"]
    /\ UNCHANGED <<now, home>>
    /\ UNCHANGED core

\* Lines 266-301: after a success the architecture file is copied next to
\* the output file, with its modification time (shutil.copy2); then the
\* two uploads are removed and the result is answered.  A missing
\* architecture file makes the copy raise, and the handler at line 288
\* removes the uploads and answers 500.
Respond(r) ==
    /\ views[r].pc = "optimized"
    /\ LET v == views[r]
       IN IF ~v.result
          THEN /\ media' = Remove(media, Uploads(v))
               /\ views' = [views EXCEPT ![r] =
                     [v EXCEPT !.pc = "done",
                               !.response =
                                  JsonResponse(FALSE, "optimize_model", 500)]]
          ELSE IF Exists(media, v.arch_path)
          THEN /\ media' = Remove(Write(media, ArchCopyOf(v.output_path),
                                        media[v.arch_path].mtime, r),
                                  Uploads(v))
               /\ views' = [views EXCEPT ![r] =
                     [v EXCEPT !.pc = "done",
                               !.response = JsonResponse(TRUE, None, 200)]]
          ELSE /\ media' = Remove(media, Uploads(v))
               /\ views' = [views EXCEPT ![r] =
                     [v EXCEPT !.pc = "done",
                               !.response =
                                  JsonResponse(FALSE, "Server error", 500)]]
    /\ UNCHANGED <<now, home>>
    /\ UNCHANGED core

ProcessModel(r) ==
    \/ Receive(r)
    \/ CheckForm(r)
    \/ OptimizeModel(r)
    \/ Respond(r)

\* Home calls cleanup_media_directories(max_age_hours=0).
MaxAgeHours == 0

\* views.py line 24 and cleanup.py lines 18-29: a visit of the home page
\* starts the cleanup, which reads the clock once and goes through the four
\* directories in this order.
HomeVisit ==
    /\ home.pc = "idle"
    /\ home' = [pc |-> "cleaning", current_time |-> now,
                directories |->
                    <<UploadDir, ProcessedDir, ArchDir, TrainingDir>>]
    /\ UNCHANGED <<now, media, views>>
    /\ UNCHANGED core

\* cleanup.py lines 32-58: the files of the next directory are listed and
\* each one older than the limit is removed.
CleanDirectory ==
    /\ home.pc = "cleaning"
    /\ home.directories # <<>>
    /\ LET max_age_seconds == MaxAgeHours * 3600 * TicksPerSecond
       IN media' = Remove(media,
                      {p \in DOMAIN media :
                          /\ p.dir = Head(home.directories)
                          /\ home.current_time - media[p].mtime
                                > max_age_seconds})
    /\ home' = [home EXCEPT !.directories = Tail(@)]
    /\ UNCHANGED <<now, views>>
    /\ UNCHANGED core

\* views.py line 32: the page is rendered.
HomeRender ==
    /\ home.pc = "cleaning"
    /\ home.directories = <<>>
    /\ home' = NoHome
    /\ UNCHANGED <<now, media, views>>
    /\ UNCHANGED core

Home == HomeVisit \/ CleanDirectory \/ HomeRender

\* Time passes.
Tick ==
    /\ now < MaxNow
    /\ now' = now + 1
    /\ UNCHANGED <<media, views, home>>
    /\ UNCHANGED core

NextViews == (\E r \in Requests : ProcessModel(r)) \/ Home \/ Tick

SpecViews == Init /\ [][NextViews]_vars

(***************************************************************************)
(* Properties.                                                             *)
(***************************************************************************)
Finished == pc \in {"returned", "escaped"}

Failed == pc = "returned" /\ result.success = FALSE

Succeeded == pc = "returned" /\ result.success = TRUE

\* C1: every failure raised inside optimize_model ends in the record
\* {success: false, error: message}; no exception leaves optimize_model.
C1_NoExceptionEscapes == pc # "escaped" /\ escaped = NoExc

\* C2: a returned record has one of two shapes: success true with
\* technique, both sizes, size_reduction_percent and processing_time and no
\* error, or success false with an error and none of the metric fields.
C2_RecordConsistent ==
    /\ pc # "returned" => result = NoResult
    /\ pc = "returned" =>
         IF result.success
         THEN /\ DOMAIN result = {"success", "technique", "original_size_mb",
                                  "optimized_size_mb", "size_reduction_percent",
                                  "processing_time"}
              /\ result.technique = req.technique
              /\ result.original_size_mb = original_size
              /\ result.optimized_size_mb = optimized_size
         ELSE /\ DOMAIN result = {"success", "error"}
              /\ result.error # NoMsg

C2_Witness == Succeeded /\ DOMAIN files # {}

\* C3: a request whose technique is none of the three known names fails
\* with the error Unknown technique naming it; no strategy has run and no
\* artifact has been written.
C3_UnknownTechniqueRejected ==
    (pc = "returned" /\ req.technique \notin KnownTechniques) =>
        /\ result.success = FALSE
        /\ result.error.text = "Unknown technique"
        /\ result.error.subject = req.technique
        /\ strategy_log = <<>>
        /\ files = NoFiles

\* The model as load_model returned it, before a strategy changed it.
UnprunedLayers ==
    IF ArchitecturePath = None THEN LegacyObject(wfile).layers
    ELSE Architecture(model_class, InitParams)

FallbackCompleted ==
    /\ req.technique = "pruning"
    /\ structured_err # NoExc
    /\ prune_path = "fallback"

\* C4 as stated: when structured pruning raised and the fallback produced
\* the result, at an amount above zero, the reported size reduction of a
\* successful run is not zero.
C4_FallbackReducesSize ==
    (FallbackCompleted /\ Succeeded /\ CurrentArgs.amount > 0) =>
        result.size_reduction_percent # 0

\* C4 as amended: the fallback leaves every tensor shape as it was, so the
\* saved state has the size of the unpruned model, and a successful run
\* whose input file is the plain state dict of that model reports a
\* reduction of 0.0.
C4_FallbackKeepsSize ==
    FallbackCompleted =>
        /\ SumBytes(optimized_model.layers) = SumBytes(UnprunedLayers)
        /\ \A i \in PrunableIndices(optimized_model) :
              /\ optimized_model.layers[i].zero_pct = CurrentArgs.amount
              /\ ~optimized_model.layers[i].mask
        /\ ( /\ Succeeded
             /\ FileBlob(wfile) = StateDictOf(optimized_model)
             /\ SummaryPath(req.output_path) # req.output_path )
           => result.size_reduction_percent = 0

C4_Witness ==
    /\ FallbackCompleted
    /\ Succeeded
    /\ FileBlob(wfile) = StateDictOf(optimized_model)
    /\ CurrentArgs.amount > 0
    /\ result.original_size_mb = 1000
    /\ result.size_reduction_percent = 0

\* C5: for a metric name outside l1, l2, taylor and random, prune_model
\* selects the importance it selects for l1 and goes on; the selection
\* never ends the call.
C5_UnknownMetricIsL1 ==
    (pc # "prune_select" /\ CurrentArgs.importance_metric \notin KnownMetrics) =>
        /\ imp = MagnitudeImportance(1)
        /\ imp = SelectImportance("l1")
        /\ pc = "strategy_raised" => structured_err # NoExc \/ ~IsException(escaped.cls)

C5_Witness ==
    /\ pc = "strategy_returned"
    /\ CurrentArgs.importance_metric = "entropy"
    /\ imp = MagnitudeImportance(1)

\* C6: the pruning strategy optimize_model runs gets the amount, the
\* importance metric name and the global-pruning flag of the request's
\* parameter bag.
C6_PruningParametersPassed ==
    \A i \in 1..Len(strategy_log) :
        strategy_log[i].name = "prune_model" =>
            /\ strategy_log[i].args.amount * 100 =
                    KwGet(req.kwargs, "pruning_amount", 50) * One
            /\ strategy_log[i].args.importance_metric =
                    KwGet(req.kwargs, "importance_metric", "l1")
            /\ strategy_log[i].args.global_pruning =
                    KwGet(req.kwargs, "global_pruning", TRUE)

IsWrapKey(k) == k \in {"state_dict", "model_state_dict"}

PlainOrWrapped == wfile.wrap \in {"none", "state_dict", "model_state_dict", "both"}

\* C7 as stated: whether the file holds the flat mapping M itself, M under
\* state_dict, M under model_state_dict, or M under state_dict next to
\* another mapping under model_state_dict, M is what is applied.
C7_WrappingTransparent ==
    \A i \in 1..Len(load_log) :
        PlainOrWrapped => load_log[i].state_dict = wfile.flat

\* C7 as amended: the same, for every flat mapping that has neither the key
\* state_dict nor the key model_state_dict; an unwrapped mapping that has
\* one of them is taken for a container and the value under that key is
\* applied.
C7_WrappingTransparentNoWrapKey ==
    \A i \in 1..Len(load_log) :
        PlainOrWrapped =>
            IF wfile.wrap = "none" /\ \E k \in DOMAIN wfile.flat.items : IsWrapKey(k)
            THEN \E k \in DOMAIN wfile.flat.items :
                    IsWrapKey(k) /\ load_log[i].state_dict = wfile.flat.items[k]
            ELSE load_log[i].state_dict = wfile.flat

C7_Witness ==
    /\ Len(load_log) = 1
    /\ wfile.wrap = "both"
    /\ wfile.other # wfile.flat
    /\ load_log[1].state_dict = wfile.flat
    /\ pc = "get_size"

\* The order in which the entry point names are probed.
ProbeOrder == <<"train_crd", "train_distillation", "train", "distill">>

Usable(ns, n) == n \in DOMAIN ns /\ IsCallable(ns[n])

\* C8: the entry point invoked is the first of train_crd,
\* train_distillation, train, distill that the script has and that is
\* callable; it is invoked once, with the teacher and the new student.
C8_EntryPointPriority ==
    /\ Len(calls) <= 1
    /\ calls # <<>> =>
          /\ \E i \in 1..Len(ProbeOrder) :
                /\ calls[1].name = ProbeOrder[i]
                /\ Usable(script_ns, ProbeOrder[i])
                /\ \A j \in 1..(i - 1) : ~Usable(script_ns, ProbeOrder[j])
          /\ calls[1].teacher = model.oid
          /\ calls[1].teacher = "loaded"
          /\ calls[1].student = student.oid
          /\ calls[1].student = "student"
    /\ (req.technique = "crd" /\ optimized_model # NoModel) => Len(calls) = 1
    /\ (req.technique = "crd" /\ Succeeded) => Len(calls) = 1

C8_Witness ==
    /\ Succeeded
    /\ {n \in DOMAIN script_ns : Usable(script_ns, n)} \cap EntryPointSet = {"distill"}
    /\ "train" \in DOMAIN script_ns
    /\ calls = << Invocation("distill", model, student) >>

NoEntryPoint(ns) ==
    /\ ns # NoNamespace
    /\ \A i \in 1..Len(ProbeOrder) : ~Usable(ns, ProbeOrder[i])

\* C9 as stated: when none of the four names is present and callable, the
\* request fails with No training function found, nothing is invoked, and
\* the message lists all callable top-level names of the script and the
\* expected signature.
C9_ListsAllCallables ==
    (Finished /\ NoEntryPoint(script_ns)) =>
        /\ Failed
        /\ calls = <<>>
        /\ result.error.text = "No training function found"
        /\ result.error.names = {n \in DOMAIN script_ns : IsCallable(script_ns[n])}
        /\ result.error.hint = ExpectedSignature

\* C9 as amended: the same, the message listing the callable top-level
\* names that do not begin with an underscore.
C9_ListsPublicCallables ==
    /\ NoEntryPoint(script_ns) => calls = <<>> /\ optimized_model = NoModel
    /\ (Finished /\ NoEntryPoint(script_ns)) =>
          /\ Failed
          /\ result.error.text = "No training function found"
          /\ result.error.wraps = <<"CRD distillation failed">>
          /\ result.error.names =
                {n \in DOMAIN script_ns : IsCallable(script_ns[n]) /\ ~IsPrivate(n)}
          /\ result.error.hint = ExpectedSignature

C9_Witness ==
    /\ Failed
    /\ NoEntryPoint(script_ns)
    /\ "train" \in DOMAIN script_ns
    /\ result.error.names = {"evaluate", "Dataset"}

\* C10: size_reduction_percent is round((original - optimized) / original
\* * 100, 2) of the two sizes, and a run whose original size is zero fails
\* with a MetricsError raised by a guard, not with an arithmetic error.
C10_MetricsGuarded ==
    /\ Succeeded =>
          /\ result.original_size_mb # 0
          /\ result.size_reduction_percent =
                SizeReduction(result.original_size_mb, result.optimized_size_mb)
    /\ (Finished /\ optimized_size # -1 /\ original_size = 0) =>
          /\ Failed
          /\ result.error.text = "MetricsError"

(***************************************************************************)
(* Runs that share a process.                                              *)
(***************************************************************************)
\* C11: a run that is interleaved with other runs of the same process
\* resolves only its own modules: the module its training script gets
\* under the name model_architecture is the one this run loaded from its
\* own architecture file, never a module another run registered.
C11_RunsIndependent == script_import \in {None, "this"}

(***************************************************************************)
(* The fallback of prune_model.                                            *)
(***************************************************************************)
\* prune_model was called and structured pruning did not complete it.
StructuredRaised ==
    /\ imp # NoImportance
    /\ pc \notin {"prune_structured", "prune_fallback"}
    /\ prune_path # "structured"

\* Unstructured pruning at the amount of the call was applied to every
\* prunable layer outside the exclusion set and to no other layer, and no
\* layer keeps a mask.
FallbackApplied ==
    /\ prune_path = "fallback"
    /\ \A i \in 1..Len(optimized_model.layers) :
          optimized_model.layers[i].zero_pct =
             IF i \in PrunableIndices(optimized_model)
                         \ IgnoredLayers(optimized_model)
             THEN CurrentArgs.amount ELSE 0
    /\ \A i \in 1..Len(optimized_model.layers) :
          ~optimized_model.layers[i].mask

\* The message m mentions the error e.
Mentions(m, e) ==
    \/ m.text = e.msg.text
    \/ \E i \in 1..Len(m.wraps) : m.wraps[i] = e.msg.text

\* C12: whatever structured pruning raises, prune_model does not report it:
\* either the fallback pruned every eligible layer at the same amount and
\* left no mask, or the error reported is the failure of the fallback.
C12_FallbackOnAnyFailure ==
    StructuredRaised =>
        \/ FallbackApplied
        \/ /\ Failed
           /\ result.error.wraps = <<"Pruning failed">>
           /\ ~Mentions(result.error, structured_err)

\* C13: when structured pruning and the fallback both raise, the error
\* prune_model raises carries both: the error of the fallback and the
\* error of structured pruning.
C13_BothErrorsCarried ==
    (structured_err # NoExc /\ Failed /\ prune_path = None) =>
        /\ result.error.wraps = <<"Pruning failed">>
        /\ Mentions(result.error, structured_err)

\* The layer at position i of the model prune_model returned is as the
\* constructor of its class built it.
Untouched(i) ==
    \E params \in {"default", "wide"} :
       optimized_model.layers[i] = Architecture(optimized_model.cls, params)[i]

\* C14: whichever path completes prune_model, the last linear or
\* convolutional layer of the model is as it was before the call; a model
\* with no such layer is pruned with an empty exclusion set, and comes
\* back with no layer changed.
C14_LastLayerExcluded ==
    prune_path # None =>
        IF PrunableIndices(optimized_model) # {}
        THEN Untouched(Max(PrunableIndices(optimized_model)))
        ELSE /\ IgnoredLayers(optimized_model) = {}
             /\ \A i \in 1..Len(optimized_model.layers) : Untouched(i)

(***************************************************************************)
(* load_model: the weights.                                                *)
(***************************************************************************)
\* The instance the constructor built, before any weight is loaded.
Fresh == Instance(model_class, InitParams, "loaded")

\* The state dict given to load_state_dict.
GivenStateDict == load_log[1].state_dict

StrictAttempted == load_log # <<>> /\ load_log[1].strict

LenientAttempted == Len(load_log) = 2 /\ ~load_log[2].strict

\* The strict attempt raised: the object is no mapping, or its keys and
\* shapes are not exactly those of the model.
StrictFailed ==
    /\ StrictAttempted
    /\ \/ GivenStateDict.kind # "dict"
       \/ MissingKeys(Fresh, GivenStateDict) # {}
       \/ UnexpectedKeys(Fresh, GivenStateDict) # {}
       \/ MismatchedKeys(Fresh, GivenStateDict) # {}

\* load_model raised: optimize_model returned its error.
LoadFailed ==
    /\ Failed
    /\ result.error.wraps # <<>>
    /\ result.error.wraps[1] = "Failed to load model"

\* C15 as stated: the lenient attempt is made only after a strict one that
\* failed, and after every strict failure; the lenient attempt skips
\* missing and shape-mismatched entries, so that the load succeeds.
C15_LenientSkipsMismatches ==
    /\ LenientAttempted => StrictFailed
    /\ StrictFailed => (LenientAttempted /\ ~LoadFailed)

\* C15 as amended: the lenient attempt is made exactly after a strict
\* attempt that raised RuntimeError (keys or shapes differ), with the same
\* state dict; it succeeds when no common entry differs in shape, the
\* missing and the unexpected entries being skipped, and raises as well
\* when an entry differs in shape.  A strict attempt that fails on an
\* object that is no mapping is not followed by a lenient one.
C15_LenientAfterRuntimeError ==
    /\ LenientAttempted <=> (StrictFailed /\ GivenStateDict.kind = "dict")
    /\ LenientAttempted =>
          /\ load_log[2].state_dict = GivenStateDict
          /\ LoadFailed <=> MismatchedKeys(Fresh, GivenStateDict) # {}
    /\ (LenientAttempted /\ pc = "get_size") =>
          /\ model.mode = "eval"
          /\ \A i \in 1..Len(model.layers) :
                model.layers[i].src =
                   IF model.layers[i].name \in DOMAIN GivenStateDict.items
                   THEN "file" ELSE "init"
    /\ (StrictFailed /\ GivenStateDict.kind # "dict") => LoadFailed

C15_Witness ==
    /\ LenientAttempted
    /\ MismatchedKeys(Fresh, GivenStateDict) # {}
    /\ MissingKeys(Fresh, GivenStateDict) = {}
    /\ LoadFailed

\* C16: when the lenient attempt fails too, load_model raises its load
\* error with the error of the lenient attempt and returns no instance:
\* optimize_model calls no strategy, writes nothing and returns the
\* failure record.
C16_LenientFailureEndsRun ==
    (LenientAttempted /\ MismatchedKeys(Fresh, GivenStateDict) # {}) =>
        /\ Failed
        /\ result.error.wraps = <<"Failed to load model">>
        /\ result.error.text = "size mismatch"
        /\ strategy_log = <<>>
        /\ optimized_model = NoModel
        /\ files = NoFiles

C16_Witness ==
    /\ LenientAttempted
    /\ MismatchedKeys(Fresh, GivenStateDict) # {}
    /\ model # Fresh
    /\ pc = "returned"

\* C17: the instance load_model returns is in inference mode, with an
\* architecture file and without one.
C17_LoadedModelInEval ==
    (pc = "get_size" /\ model.is_module) => model.mode = "eval"

(***************************************************************************)
(* crd_distillation: the order of its steps.                               *)
(***************************************************************************)
\* The training script was given to the interpreter: it is registered
\* under its module name immediately before it is executed.
ScriptExecuted == sys_modules["training_module"] = "this"

\* The student class named in the call is bound in the architecture module
\* to a class derived from nn.Module.
StudentClassValid ==
    /\ CurrentArgs.student_class_name \in DOMAIN module_ns
    /\ module_ns[CurrentArgs.student_class_name] = "module_class"

\* C18: in distillation the student class is resolved and validated before
\* it is instantiated, the student is instantiated before the training
\* script is executed, the script is executed before the entry point is
\* resolved and the entry point is resolved before it is invoked, once,
\* with the teacher and the student; when the student class is absent,
\* invalid or fails to instantiate, the script is never executed and no
\* entry point is invoked.
C18_DistillationOrder ==
    /\ student # NoModel => StudentClassValid
    /\ ScriptExecuted => student # NoModel
    /\ script_ns # NoNamespace => ScriptExecuted
    /\ training_function # None =>
          /\ script_ns # NoNamespace
          /\ training_function \in DOMAIN script_ns
    /\ calls # <<>> =>
          /\ training_function # None
          /\ calls = <<Invocation(training_function, model, student)>>
    /\ student = NoModel =>
          /\ ~ScriptExecuted
          /\ script_import = None
          /\ calls = <<>>

C18_Witness ==
    /\ pc = "returned"
    /\ strategy_log # <<>>
    /\ strategy_log[1].name = "crd_distillation"
    /\ StudentClassValid
    /\ student = NoModel
    /\ result.error.text = "unexpected keyword argument"

(***************************************************************************)
(* load_model: the constructor.                                            *)
(***************************************************************************)
\* The message names the wrapped error, the class and the parameters.
ReportsInstantiation(m, e) ==
    /\ m.wraps = <<"Failed to load model", "Failed to instantiate">>
    /\ m.text = e.msg.text
    /\ m.subject = model_class
    /\ m.params = InitParams

\* C19 as stated: whatever exception the constructor of the model class
\* raises, the error load_model reports holds the error of the constructor
\* and the parameters it was called with.
C19_AnyCtorErrorWrapped ==
    (ctor_raised # NoExc /\ pc = "returned") =>
        /\ Failed
        /\ ReportsInstantiation(result.error, ctor_raised)

\* C19 as amended: a TypeError of the constructor is reported with the
\* error, the class name and the parameters; any other exception derived
\* from Exception is reported as a load failure with the error alone, the
\* parameters left out.  No strategy runs in either case.
C19_TypeErrorWrapped ==
    (ctor_raised # NoExc /\ pc = "returned") =>
        /\ Failed
        /\ strategy_log = <<>>
        /\ IF ctor_raised.cls = "TypeError"
           THEN ReportsInstantiation(result.error, ctor_raised)
           ELSE /\ result.error.wraps = <<"Failed to load model">>
                /\ result.error.text = ctor_raised.msg.text
                /\ result.error.params = ""

C19_Witness ==
    /\ pc = "returned"
    /\ ctor_raised.cls = "TypeError"
    /\ InitParams = "wide"
    /\ result.error.params = "wide"

(***************************************************************************)
(* crd_distillation: what the entry point does.                            *)
(***************************************************************************)
\* The failure reported is that of an entry point that raised.
ReportedTrainingFunctionFailed ==
    /\ Failed
    /\ result.error.wraps =
          <<"CRD distillation failed", "Training function failed">>

\* The failure reported is that of an entry point that returned None.
ReportedNoModel ==
    /\ Failed
    /\ result.error.wraps = <<"CRD distillation failed">>
    /\ result.error.text = "Training function returned None"

\* C20: an entry point that was invoked and gave no result either raised,
\* and the failure reported is TrainingFunctionFailed, or returned None,
\* and the failure reported is the other one; nothing is saved in either
\* case.
C20_RaiseAndNoneDistinct ==
    (calls # <<>> /\ Finished /\ optimized_model = NoModel) =>
        /\ ReportedTrainingFunctionFailed \/ ReportedNoModel
        /\ ~(ReportedTrainingFunctionFailed /\ ReportedNoModel)
        /\ files = NoFiles

(***************************************************************************)
(* The summary and the files of a run.                                     *)
(***************************************************************************)
ErrorSummary == "Error generating architecture summary"

\* generate_model_summary was called and torchinfo did not produce the
\* description of the model.
IntrospectionFailed ==
    /\ optimized_model # NoModel
    /\ pc \notin {"summary", "strategy_returned"}
    /\ summary_text # "summary"

\* The steps after generate_model_summary and what each reports when it
\* fails.
LaterStepFailed ==
    /\ Failed
    /\ \/ result.error.wraps = <<"Failed to save model">>
       \/ /\ result.error.wraps = <<>>
          /\ result.error.text \in {"No space left on device",
                                     "float division by zero"}

\* C21: when the introspection of the transformed model fails, its error
\* text is the summary, the run goes on to save the weights and to write
\* that text to the summary file, and a failure record is returned only
\* for the failure of a later step.
C21_SummaryBestEffort ==
    IntrospectionFailed =>
        /\ summary_text = ErrorSummary
        /\ pc # "escaped"
        /\ pc \in {"get_optimized_size", "metrics"} \/ Succeeded =>
              /\ SummaryPath(req.output_path) \in DOMAIN files
              /\ files[SummaryPath(req.output_path)].kind = ErrorSummary
        /\ Failed => LaterStepFailed

\* The path with its extension, the part from the last dot on, taken off.
Stem(path) ==
    LET dots == {i \in 1..Len(path) : path[i] = "."}
    IN IF dots = {} THEN path ELSE SubSeq(path, 1, Max(dots) - 1)

\* The sibling of a weights path that holds its summary: same directory,
\* same stem, the summary suffix in place of the extension.
SiblingSummaryPath(path) == Stem(path) \o SummarySuffix

\* C22: after a successful run the summary text is in the file whose path
\* is the output path with its weight-file suffix, and nothing else,
\* replaced by the summary suffix, and get_model_architecture called with
\* the output path returns that text.
C22_SummaryAtSiblingPath ==
    Succeeded =>
        /\ SummaryPath(req.output_path) = SiblingSummaryPath(req.output_path)
        /\ SiblingSummaryPath(req.output_path) \in DOMAIN files
        /\ files[SiblingSummaryPath(req.output_path)].kind = summary_text
        /\ GetModelArchitecture(files, req.output_path) = summary_text

\* C24: a run that returned the failure record created no file: neither
\* the weights file at the output path nor the summary file exists.
C24_NoArtifactAfterFailure == Failed => files = NoFiles

\* C25: the summary path is never the output path: after a successful run
\* the file at the output path holds the serialized weights of the
\* transformed model, and the optimized size is the size of that file.
C25_SummaryKeepsWeights ==
    Succeeded =>
        /\ SummaryPath(req.output_path) # req.output_path
        /\ files[req.output_path] =
              FileContent("weights", SerializedBytes(optimized_model))
        /\ optimized_size = GetModelSize(SerializedBytes(optimized_model))

(***************************************************************************)
(* The requests of process_model and the cleanup of the home page.         *)
(***************************************************************************)
\* The request has stored its uploads and built its paths.
PathsBuilt(r) == views[r].output_path # NoPath

\* The file at the path is the one the request r wrote.
Holds(r, path) == Exists(media, path) /\ media[path].by = r

\* C23: two requests never get the same output path, nor the same summary
\* path or architecture-copy path derived from it, whatever their forms
\* and the times they arrive at.
C23_PathsUniquePerRequest ==
    \A r1, r2 \in Requests :
       (r1 # r2 /\ PathsBuilt(r1) /\ PathsBuilt(r2)) =>
          /\ views[r1].output_path # views[r2].output_path
          /\ SummaryOf(views[r1].output_path) # SummaryOf(views[r2].output_path)
          /\ ArchCopyOf(views[r1].output_path)
                # ArchCopyOf(views[r2].output_path)

\* C26: while a request is in progress, from the moment its uploads are
\* stored until it is answered, the files it stored and the output file it
\* produced exist, whatever visits of the home page are served meanwhile.
C26_FilesKeptWhileInProgress ==
    \A r \in Requests :
       views[r].pc \in {"saved", "optimize", "optimized"} =>
          /\ Holds(r, views[r].input_path)
          /\ Holds(r, views[r].arch_path)
          /\ views[r].training_path # NoPath =>
                Holds(r, views[r].training_path)
          /\ (views[r].pc = "optimized" /\ views[r].result = TRUE) =>
                Exists(media, views[r].output_path)

\* C27: when a request that stored uploads has been answered, none of the
\* files it uploaded is left: not the weights file, not the architecture
\* file, not the training script.
C27_UploadsRemoved ==
    \A r \in Requests :
       (views[r].pc = "done" /\ PathsBuilt(r)) =>
          /\ ~Holds(r, views[r].input_path)
          /\ ~Holds(r, views[r].arch_path)
          /\ ~Holds(r, views[r].training_path)
====
